---- MODULE Spec2Model ----
(***************************************************************************)
(* A model of the lit-vek crate: the CycleN iterator adaptor (iter.rs) and *)
(* the macro_rules! rewrite systems iter!, vek! and chain!.                *)
(*                                                                         *)
(* Option<T> is modelled as a sequence of length 0 (None) or 1 (Some).     *)
(***************************************************************************)
EXTENDS Integers, Sequences, FiniteSets, TLC

\* ------------------------------------------------------------------ bounds

\* longest underlying sequence handed to cycle_n
MaxLen == 2
\* largest repeat count handed to cycle_n
MaxN == 3
\* number of next() calls made after CycleN has returned None
MaxExtra == 2
\* most items in a macro argument list
MaxItems == 3
\* largest count n in the forms `x; n` and `...xs; n`
MaxCount == 2
\* the count n written in the nested items `...[x; n]` and `...[...xs; n]`
RepCount == 2

VARIABLES
    cpc,            \* "new" before cycle_n() is called, "live" after
    src,            \* the iterable handed to cycle_n: [items, fused]
    cn,             \* the count handed to cycle_n
    cyc,            \* the CycleN struct: [orig, iter, n]
    out,            \* the elements next() has yielded so far
    ret,            \* what the last next() returned (Option)
    extra,          \* next() calls made after the first None
    intoIterCalls,  \* calls of IntoIterator::into_iter
    cloneCalls,     \* calls of I::clone
    ucalls,         \* calls of the underlying iterator's next()
    passes,         \* underlying iterators run to exhaustion
    mac,            \* the macro invoked: "iter", "vek" or "chain"
    mpc,            \* "call", "expand", "expanded", then "ok", "rejected"
                    \* (no rule matched or a fragment failed to parse) or
                    \* "invalid" (the expansion does not compile)
    args,           \* the invocation as written: [form, items, trail, n]
    toks,           \* the argument tokens of the pending macro call
    sel,            \* the rule the matcher selects for the pending call,
                    \* with what it transcribes: [idx, r]
    ctx,            \* the calls transcribed around the pending macro call
    result,         \* the finished expansion
    value           \* the elements the compiled expansion yields

cvars == <<cpc, src, cn, cyc, out, ret, extra, intoIterCalls, cloneCalls,
           ucalls, passes>>

mvars == <<mac, mpc, args, toks, sel, ctx, result, value>>

vars == <<cvars, mvars>>

None == <<>>
Some(x) == <<x>>

\* ------------------------------------------------- the underlying iterator

\* An iterator over `items`; a fused one keeps returning None at the end,
\* an unfused one starts over after it has returned None once.
IntoIter(s) == [items |-> s.items, pos |-> 0, fused |-> s.fused]

\* I::next(): <<iterator after the call, returned Option>>
INext(it) ==
    IF it.pos < Len(it.items)
    THEN <<[it EXCEPT !.pos = it.pos + 1], Some(it.items[it.pos + 1])>>
    ELSE <<[it EXCEPT !.pos = IF it.fused THEN it.pos ELSE 0], None>>

\* ----------------------------------------------------------------- CycleN

\* cycle_n without its `1 =>` arm: one pass is set up like several
cycle_n_NoSinglePassArm(it, n) ==
    IF n = 0
    THEN [c |-> [orig |-> None, iter |-> None, n |-> n],
          intoIter |-> 0, clones |-> 0]
    ELSE [c |-> [orig |-> Some(IntoIter(it)), iter |-> Some(IntoIter(it)),
                 n |-> n],
          intoIter |-> 1, clones |-> 1]

\* cycle_n(it, n): the struct and the number of into_iter / clone calls
cycle_n(it, n) ==
    CASE n = 0 -> [c |-> [orig |-> None, iter |-> None, n |-> n],
                   intoIter |-> 0, clones |-> 0]
      [] n = 1 -> [c |-> [orig |-> None, iter |-> Some(IntoIter(it)), n |-> n],
                   intoIter |-> 1, clones |-> 0]
      [] OTHER -> [c |-> [orig |-> Some(IntoIter(it)),
                          iter |-> Some(IntoIter(it)), n |-> n],
                   intoIter |-> 1, clones |-> 1]

\* AfterPass with the test `n < 2` written as `n < 1`
AfterPassOffByOne(c) ==
    IF c.n - 1 < 1
    THEN [c |-> [orig |-> None, iter |-> c.orig, n |-> c.n - 1], clones |-> 0]
    ELSE [c |-> [orig |-> c.orig, iter |-> c.orig, n |-> c.n - 1],
          clones |-> Len(c.orig)]

\* Option::take and Option::clone on self.orig after an exhausted pass
AfterPass(c) ==
    IF c.n - 1 < 2
    THEN [c |-> [orig |-> None, iter |-> c.orig, n |-> c.n - 1], clones |-> 0]
    ELSE [c |-> [orig |-> c.orig, iter |-> c.orig, n |-> c.n - 1],
          clones |-> Len(c.orig)]

\* CycleN::next() returning None after the last pass without clearing
\* self.iter
RECURSIVE CycleNextKeepsIter(_, _)
CycleNextKeepsIter(c, r) ==
    IF c.iter = None
    THEN [c |-> c, ret |-> None, clones |-> r.clones, ucalls |-> r.ucalls,
          passes |-> r.passes]
    ELSE LET step == INext(c.iter[1])
         IN IF step[2] # None
            THEN [c |-> [c EXCEPT !.iter = Some(step[1])], ret |-> step[2],
                  clones |-> r.clones, ucalls |-> r.ucalls + 1,
                  passes |-> r.passes]
            ELSE IF c.n <= 1
            THEN [c |-> [c EXCEPT !.iter = Some(step[1])], ret |-> None,
                  clones |-> r.clones, ucalls |-> r.ucalls + 1,
                  passes |-> r.passes + 1]
            ELSE LET a == AfterPass(c)
                 IN CycleNextKeepsIter(a.c, [clones |-> r.clones + a.clones,
                                             ucalls |-> r.ucalls + 1,
                                             passes |-> r.passes + 1])

\* CycleN::next(): the while-let loop, run to its return.
\* r accumulates [clones, ucalls, passes] made by this call.
RECURSIVE CycleNext(_, _)
CycleNext(c, r) ==
    IF c.iter = None
    THEN [c |-> c, ret |-> None, clones |-> r.clones, ucalls |-> r.ucalls,
          passes |-> r.passes]
    ELSE LET step == INext(c.iter[1])
         IN IF step[2] # None
            THEN [c |-> [c EXCEPT !.iter = Some(step[1])], ret |-> step[2],
                  clones |-> r.clones, ucalls |-> r.ucalls + 1,
                  passes |-> r.passes]
            ELSE LET a == AfterPass(c)
                 IN CycleNext(a.c, [clones |-> r.clones + a.clones,
                                    ucalls |-> r.ucalls + 1,
                                    passes |-> r.passes + 1])

\* Body applied to the value of v, with v evaluated once
With(v, Body(_)) == CHOOSE x \in {Body(r) : r \in {v}} : TRUE

\* Iterator::collect over cycle_n(s, n): next() until None
RECURSIVE Drain(_, _)
Drain(c, acc) ==
    With(CycleNext(c, [clones |-> 0, ucalls |-> 0, passes |-> 0]),
         LAMBDA r : IF r.ret = None THEN acc ELSE Drain(r.c, acc \o r.ret))

CycleCollect(s, n) == Drain(cycle_n([items |-> s, fused |-> TRUE], n).c, <<>>)

\* ----------------------------------------------------------- token trees
\* A token tree is a tuple whose first element names its kind.  A macro
\* argument list and a macro expansion are sequences of token trees.

TDots == <<"...">>
TComma == <<",">>
TSemi == <<";">>
TMinus == <<"-">>
TDot == <<".">>
TSep == <<"::">>
TCrate == <<"$crate">>
\* the turbofish arguments <Vec<_>>
TGenerics == <<"<>">>
TLit(n) == <<"lit", n>>
TId(s) == <<"id", s>>
\* a delimited group [ ... ] or ( ... )
TGrp(d, body) == <<"grp", d, body>>
\* the tokens a $x:expr fragment matched, forwarded as one opaque token tree
TExpr(ts) == <<"expr", ts>>
\* an identifier bound by `let` in the expansion, with its initialiser
TLet(name, init) == <<"let", name, init>>

Drop(ts, k) == SubSeq(ts, k + 1, Len(ts))
Kind(ts, i) == IF i <= Len(ts) THEN ts[i][1] ELSE "eof"
IsBracket(ts, i) == Kind(ts, i) = "grp" /\ ts[i][2] = "["
IsParen(ts, i) == Kind(ts, i) = "grp" /\ ts[i][2] = "("

\* --------------------------------------------- the expression parser
\* The fragment of Rust's expression grammar the macros' arguments and
\* expansions use: literals, unary minus, paths, calls, method calls,
\* parentheses, array literals [a, b, c] and array repeats [x; n].

Err == <<"Err">>
IsErr(a) == a[1] = "Err"

RECURSIVE PathSegs(_, _)
PathSegs(ts, acc) ==
    IF Kind(ts, 1) = "::" /\ Kind(ts, 2) = "id"
    THEN PathSegs(Drop(ts, 2), Append(acc, ts[2][2]))
    ELSE IF Kind(ts, 1) = "::" /\ Kind(ts, 2) = "<>"
    THEN PathSegs(Drop(ts, 2), acc)
    ELSE [ast |-> IF acc = <<>> THEN Err ELSE <<"Path", acc>>, rest |-> ts]

ParsePath(ts) ==
    IF Kind(ts, 1) = "::" THEN PathSegs(ts, <<>>)
    ELSE IF Kind(ts, 1) = "$crate" THEN PathSegs(Tail(ts), <<"$crate">>)
    ELSE PathSegs(Tail(ts), <<ts[1][2]>>)

RECURSIVE ParseExpr(_), ParseAll(_), ParseList(_), ParseArray(_),
          ParsePrimary(_), ParsePostfix(_)

\* a whole token sequence as one expression
ParseAll(ts) ==
    With(ParseExpr(ts), LAMBDA r : IF r.rest = <<>> THEN r.ast ELSE Err)

\* a, b, c with an optional trailing comma: <<"ok", asts>> or <<"err">>
ParseList(ts) ==
    IF ts = <<>> THEN <<"ok", <<>>>>
    ELSE With(ParseExpr(ts), LAMBDA r :
            IF IsErr(r.ast) THEN <<"err">>
            ELSE IF r.rest = <<>> THEN <<"ok", <<r.ast>>>>
            ELSE IF Kind(r.rest, 1) # "," THEN <<"err">>
            ELSE With(ParseList(Tail(r.rest)), LAMBDA l :
                    IF l[1] = "err" THEN l ELSE <<"ok", <<r.ast>> \o l[2]>>))

\* the inside of [ ... ]
ParseArray(body) ==
    IF body = <<>> THEN <<"Array", <<>>>>
    ELSE With(ParseExpr(body), LAMBDA r :
            IF IsErr(r.ast) THEN Err
            ELSE IF Kind(r.rest, 1) = ";"
            THEN With(ParseAll(Tail(r.rest)), LAMBDA n :
                    IF IsErr(n) THEN Err ELSE <<"ArrayRepeat", r.ast, n>>)
            ELSE IF r.rest = <<>> THEN <<"Array", <<r.ast>>>>
            ELSE IF Kind(r.rest, 1) # "," THEN Err
            ELSE With(ParseList(Tail(r.rest)), LAMBDA l :
                    IF l[1] = "err" THEN Err
                    ELSE <<"Array", <<r.ast>> \o l[2]>>))

ParsePrimary(ts) ==
    CASE Kind(ts, 1) = "lit" -> [ast |-> <<"Lit", ts[1][2]>>, rest |-> Tail(ts)]
      [] Kind(ts, 1) = "expr" -> [ast |-> ParseAll(ts[1][2]), rest |-> Tail(ts)]
      [] Kind(ts, 1) = "let" -> [ast |-> ParseAll(ts[1][3]), rest |-> Tail(ts)]
      [] IsParen(ts, 1) -> [ast |-> ParseAll(ts[1][3]), rest |-> Tail(ts)]
      [] IsBracket(ts, 1) -> [ast |-> ParseArray(ts[1][3]), rest |-> Tail(ts)]
      [] Kind(ts, 1) \in {"id", "::", "$crate"} -> ParsePath(ts)
      [] OTHER -> [ast |-> Err, rest |-> ts]

\* calls f(args) and method calls recv.name(args) after the expression p
ParsePostfix(p) ==
    With(p, LAMBDA r :
        IF IsErr(r.ast) THEN r
        ELSE IF IsParen(r.rest, 1)
        THEN With(ParseList(r.rest[1][3]), LAMBDA l :
                IF l[1] = "err" THEN [ast |-> Err, rest |-> r.rest]
                ELSE ParsePostfix([ast |-> <<"Call", r.ast, l[2]>>,
                                   rest |-> Tail(r.rest)]))
        ELSE IF /\ Kind(r.rest, 1) = "."
                /\ Kind(r.rest, 2) = "id"
                /\ IsParen(r.rest, 3)
        THEN With(ParseList(r.rest[3][3]), LAMBDA l :
                IF l[1] = "err" THEN [ast |-> Err, rest |-> r.rest]
                ELSE ParsePostfix([ast |-> <<"Method", r.ast, r.rest[2][2], l[2]>>,
                                   rest |-> Drop(r.rest, 3)]))
        ELSE r)

\* the longest expression ts starts with: [ast, rest]
ParseExpr(ts) ==
    IF Kind(ts, 1) = "-"
    THEN With(ParseExpr(Tail(ts)), LAMBDA r :
            IF IsErr(r.ast) THEN r
            ELSE [ast |-> <<"Neg", r.ast>>, rest |-> r.rest])
    ELSE ParsePostfix(ParsePrimary(ts))

\* ------------------------------------------------------------ evaluation
\* The value of a parsed expansion: <<"int", n>>, <<"seq", s>> (anything
\* iterable, by the elements it yields), <<"repeat", x>> (the endless
\* std::iter::repeat(x)) or <<"err">> (the expression does not compile).

\* the sequence the caller's variable `xs` holds
XS == <<7, 8>>

PathEmpty == <<"std", "iter", "empty">>
PathRepeat == <<"std", "iter", "repeat">>
PathIntoIter == <<"std", "iter", "IntoIterator", "into_iter">>
PathChain == <<"std", "iter", "Iterator", "chain">>
PathCollect == <<"std", "iter", "Iterator", "collect">>
PathCycleN == <<"$crate", "cycle_n">>
PathVecNew == <<"Vec", "new">>

Copies(x, n) == [i \in 1..n |-> x]

RECURSIVE Eval(_), EvalElems(_), EvalArgs(_)

\* the elements of an array literal: <<"seq", values>> or <<"err">>
EvalElems(es) ==
    IF es = <<>> THEN <<"seq", <<>>>>
    ELSE With(Eval(es[1]), LAMBDA h :
            IF h[1] # "int" THEN <<"err">>
            ELSE With(EvalElems(Tail(es)), LAMBDA t :
                    IF t[1] = "seq" THEN <<"seq", <<h[2]>> \o t[2]>>
                    ELSE <<"err">>))

\* the values of the arguments of a call
EvalArgs(es) ==
    IF es = <<>> THEN <<>>
    ELSE With(Eval(es[1]), LAMBDA h : <<h>> \o EvalArgs(Tail(es)))

EvalCall(path, vs) ==
    CASE path = PathEmpty /\ Len(vs) = 0 -> <<"seq", <<>>>>
      [] path = PathVecNew /\ Len(vs) = 0 -> <<"seq", <<>>>>
      [] path = PathRepeat /\ Len(vs) = 1 ->
            IF vs[1][1] = "int" THEN <<"repeat", vs[1][2]>> ELSE <<"err">>
      [] path \in {PathIntoIter, PathCollect} /\ Len(vs) = 1 ->
            IF vs[1][1] = "seq" THEN vs[1] ELSE <<"err">>
      [] path = PathChain /\ Len(vs) = 2 ->
            IF vs[1][1] = "seq" /\ vs[2][1] = "seq"
            THEN <<"seq", vs[1][2] \o vs[2][2]>> ELSE <<"err">>
      [] path = PathCycleN /\ Len(vs) = 2 ->
            IF vs[1][1] = "seq" /\ vs[2][1] = "int" /\ vs[2][2] >= 0
            THEN <<"seq", CycleCollect(vs[1][2], vs[2][2])>> ELSE <<"err">>
      [] OTHER -> <<"err">>

EvalMethod(recv, name, vs) ==
    CASE name = "take" /\ recv[1] = "repeat" /\ Len(vs) = 1 ->
            IF vs[1][1] = "int" /\ vs[1][2] >= 0
            THEN <<"seq", Copies(recv[2], vs[1][2])>> ELSE <<"err">>
      [] name = "clone" /\ recv[1] = "seq" /\ Len(vs) = 0 -> recv
      [] OTHER -> <<"err">>

Eval(a) ==
    CASE a[1] = "Lit" -> <<"int", a[2]>>
      [] a[1] = "Neg" ->
            With(Eval(a[2]), LAMBDA v :
                IF v[1] = "int" THEN <<"int", 0 - v[2]>> ELSE <<"err">>)
      [] a[1] = "Path" -> IF a[2] = <<"xs">> THEN <<"seq", XS>> ELSE <<"err">>
      [] a[1] = "Array" -> EvalElems(a[2])
      [] a[1] = "ArrayRepeat" ->
            With(<<Eval(a[2]), Eval(a[3])>>, LAMBDA v :
                IF v[1][1] = "int" /\ v[2][1] = "int" /\ v[2][2] >= 0
                THEN <<"seq", Copies(v[1][2], v[2][2])>> ELSE <<"err">>)
      [] a[1] = "Call" ->
            IF a[2][1] = "Path"
            THEN With(EvalArgs(a[3]), LAMBDA vs : EvalCall(a[2][2], vs))
            ELSE <<"err">>
      [] a[1] = "Method" ->
            With(<<Eval(a[2]), EvalArgs(a[4])>>, LAMBDA v :
                EvalMethod(v[1], a[3], v[2]))
      [] OTHER -> <<"err">>

\* ------------------------------------------------- macro_rules! matching
\* A rule applied to an argument list gives m = "no" (the pattern does not
\* match: the next rule is tried), "fatal" (a fragment parser was entered
\* and failed: the compilation stops) or "yes" with what it transcribes:
\*   kind "final":   toks, an expansion that invokes no macro;
\*   kind "recurse": the same macro invoked on toks;
\*   kind "frame":   chain(into_iter(left), <the same macro invoked on toks>).

No == [m |-> "no", kind |-> "", toks |-> <<>>, left |-> <<>>]
Fatal == [m |-> "fatal", kind |-> "", toks |-> <<>>, left |-> <<>>]
Final(ts) == [m |-> "yes", kind |-> "final", toks |-> ts, left |-> <<>>]
Recurse(ts) == [m |-> "yes", kind |-> "recurse", toks |-> ts, left |-> <<>>]
Frame(l, ts) == [m |-> "yes", kind |-> "frame", toks |-> ts, left |-> l]

\* the token kinds an expression may begin with
CanBeginExpr == {"lit", "id", "let", "::", "$crate", "grp", "-", "expr", "..."}

\* $x:expr at the head of ts: [m, frag, rest]
FragExpr(ts) ==
    IF Kind(ts, 1) \notin CanBeginExpr
    THEN [m |-> "no", frag |-> <<>>, rest |-> ts]
    ELSE With(ParseExpr(ts), LAMBDA r :
            IF IsErr(r.ast)
            THEN [m |-> "fatal", frag |-> <<>>, rest |-> ts]
            ELSE [m |-> "yes",
                  frag |-> TExpr(SubSeq(ts, 1, Len(ts) - Len(r.rest))),
                  rest |-> r.rest])

\* $x:expr followed by the end of the enclosing token sequence
ExprToEnd(ts) ==
    With(FragExpr(ts), LAMBDA f :
        IF f.m = "yes" /\ f.rest # <<>>
        THEN [m |-> "no", frag |-> <<>>, rest |-> ts]
        ELSE f)

Failed(f) == IF f.m = "fatal" THEN Fatal ELSE No

\* ... $some:tt ,  ...   the common head of the second-item rules
SpreadThenSpread(ts) ==
    /\ Kind(ts, 1) = "..."
    /\ Len(ts) >= 2
    /\ Kind(ts, 3) = ","
    /\ Kind(ts, 4) = "..."

\* ------------------------------------------------------ transcribed code

StdIter == <<TSep, TId("std"), TSep, TId("iter")>>
EmitEmpty == StdIter \o <<TSep, TId("empty"), TGrp("(", <<>>)>>
EmitIntoIter(arg) ==
    StdIter \o <<TSep, TId("IntoIterator"), TSep, TId("into_iter"),
                 TGrp("(", arg)>>
EmitChain(a, b) ==
    StdIter \o <<TSep, TId("Iterator"), TSep, TId("chain"),
                 TGrp("(", a \o <<TComma>> \o b)>>
EmitCollectVec(arg) ==
    StdIter \o <<TSep, TId("Iterator"), TSep, TId("collect"), TSep, TGenerics,
                 TGrp("(", arg)>>
\* ::std::iter::repeat(x).take(n)
EmitRepeatTake(x, n) ==
    StdIter \o <<TSep, TId("repeat"), TGrp("(", x), TDot, TId("take"),
                 TGrp("(", n)>>
EmitCycleN(x, n) ==
    <<TCrate, TSep, TId("cycle_n"), TGrp("(", x \o <<TComma>> \o n)>>
EmitVecNew == <<TId("Vec"), TSep, TId("new"), TGrp("(", <<>>)>>

\* ------------------------------------------------------- iter! rules

\* () => empty()
IterEmpty(ts) == IF ts = <<>> THEN Final(EmitEmpty) ELSE No

\* ($x:tt; $n:expr) => repeat($x).take($n)
IterRepeat(ts) ==
    IF Len(ts) >= 1 /\ Kind(ts, 2) = ";"
    THEN With(ExprToEnd(Drop(ts, 2)), LAMBDA n :
            IF n.m = "yes"
            THEN Final(EmitRepeatTake(<<ts[1]>>, <<n.frag>>))
            ELSE Failed(n))
    ELSE No

\* (...$x:tt; $n:expr) => cycle_n($x, $n)
IterCycle(ts) ==
    IF Kind(ts, 1) = "..." /\ Len(ts) >= 2 /\ Kind(ts, 3) = ";"
    THEN With(ExprToEnd(Drop(ts, 3)), LAMBDA n :
            IF n.m = "yes"
            THEN Final(EmitCycleN(<<ts[2]>>, <<n.frag>>))
            ELSE Failed(n))
    ELSE No

\* (...[...$xs:expr; $n:expr] $($tail:tt)*)
\*     => iter![...cycle_n($xs, $n) $($tail)*]
IterCycleFirst(ts) ==
    IF Kind(ts, 1) = "..." /\ IsBracket(ts, 2) /\ Kind(ts[2][3], 1) = "..."
    THEN With(FragExpr(Tail(ts[2][3])), LAMBDA xs :
            IF xs.m # "yes" THEN Failed(xs)
            ELSE IF Kind(xs.rest, 1) # ";" THEN No
            ELSE With(ExprToEnd(Tail(xs.rest)), LAMBDA n :
                    IF n.m = "yes"
                    THEN Recurse(<<TDots>> \o EmitCycleN(<<xs.frag>>, <<n.frag>>)
                                 \o Drop(ts, 2))
                    ELSE Failed(n)))
    ELSE No

\* (...$some:tt $(,)?) => into_iter($some)
IterSpreadOnly(ts) ==
    IF /\ Kind(ts, 1) = "..."
       /\ \/ Len(ts) = 2
          \/ Len(ts) = 3 /\ Kind(ts, 3) = ","
    THEN Final(EmitIntoIter(<<ts[2]>>))
    ELSE No

\* (...$some:tt, ...[...$x:tt; $n:expr] $($tail:tt)*)
\*     => iter![...$some, ...cycle_n($x, $n) $($tail)*]
IterCycleSecond(ts) ==
    IF /\ SpreadThenSpread(ts)
       /\ IsBracket(ts, 5)
       /\ Kind(ts[5][3], 1) = "..."
       /\ Len(ts[5][3]) >= 2
       /\ Kind(ts[5][3], 3) = ";"
    THEN With(ExprToEnd(Drop(ts[5][3], 3)), LAMBDA n :
            IF n.m = "yes"
            THEN Recurse(<<TDots, ts[2], TComma, TDots>>
                         \o EmitCycleN(<<ts[5][3][2]>>, <<n.frag>>)
                         \o Drop(ts, 5))
            ELSE Failed(n))
    ELSE No

\* (...$some:tt, ...[$x:tt; $n:expr] $($tail:tt)*)
\*     => iter![...$some, ...std::iter::repeat($x).take($n) $($tail)*]
IterRepeatSecond(ts) ==
    IF /\ SpreadThenSpread(ts)
       /\ IsBracket(ts, 5)
       /\ Len(ts[5][3]) >= 1
       /\ Kind(ts[5][3], 2) = ";"
    THEN With(ExprToEnd(Drop(ts[5][3], 2)), LAMBDA n :
            IF n.m = "yes"
            THEN Recurse(<<TDots, ts[2], TComma, TDots>>
                         \o Drop(EmitRepeatTake(<<ts[5][3][1]>>, <<n.frag>>), 1)
                         \o Drop(ts, 5))
            ELSE Failed(n))
    ELSE No

\* (...$some:tt, ...$xs:expr $(,)?) => chain(into_iter($some), $xs)
IterChainLast(ts) ==
    IF SpreadThenSpread(ts)
    THEN With(FragExpr(Drop(ts, 4)), LAMBDA xs :
            IF xs.m # "yes" THEN Failed(xs)
            ELSE IF xs.rest = <<>> \/ xs.rest = <<TComma>>
            THEN Final(EmitChain(EmitIntoIter(<<ts[2]>>), <<xs.frag>>))
            ELSE No)
    ELSE No

\* (...$some:tt, ...$xs:expr, $($tail:tt)*)
\*     => iter![...chain(into_iter($some), $xs), $($tail)*]
IterChainMore(ts) ==
    IF SpreadThenSpread(ts)
    THEN With(FragExpr(Drop(ts, 4)), LAMBDA xs :
            IF xs.m # "yes" THEN Failed(xs)
            ELSE IF Kind(xs.rest, 1) = ","
            THEN Recurse(<<TDots>>
                         \o EmitChain(EmitIntoIter(<<ts[2]>>), <<xs.frag>>)
                         \o <<TComma>> \o Tail(xs.rest))
            ELSE No)
    ELSE No

\* (...[$($some:tt)*], $x:tt $(, $($tail:tt)*)?)
\*     => iter![...[$($some)*, $x], $($($tail)*)?]
IterShift(ts) ==
    IF /\ Kind(ts, 1) = "..."
       /\ IsBracket(ts, 2)
       /\ Kind(ts, 3) = ","
       /\ Len(ts) >= 4
       /\ Kind(ts, 5) \in {",", "eof"}
    THEN Recurse(<<TDots, TGrp("[", ts[2][3] \o <<TComma, ts[4]>>), TComma>>
                 \o Drop(ts, 5))
    ELSE No

\* (...$xs:expr $(, $($tail:tt)*)?) => chain(into_iter($xs), iter![$tail])
IterSpreadFirst(ts) ==
    IF Kind(ts, 1) = "..."
    THEN With(FragExpr(Tail(ts)), LAMBDA xs :
            IF xs.m # "yes" THEN Failed(xs)
            ELSE IF Kind(xs.rest, 1) \in {",", "eof"}
            THEN Frame(<<xs.frag>>, Drop(xs.rest, 1))
            ELSE No)
    ELSE No

\* ($x:expr $(, $($tail:tt)*)?) => iter![...[$x], $($($tail)*)?]
IterElemFirst(ts) ==
    With(FragExpr(ts), LAMBDA x :
        IF x.m # "yes" THEN Failed(x)
        ELSE IF Kind(x.rest, 1) \in {",", "eof"}
        THEN Recurse(<<TDots, TGrp("[", <<x.frag>>), TComma>> \o Drop(x.rest, 1))
        ELSE No)

\* the rules of iter! in the order the source lists them
IterRuleAt(k, ts) ==
    CASE k = 1 -> IterEmpty(ts)
      [] k = 2 -> IterRepeat(ts)
      [] k = 3 -> IterCycle(ts)
      [] k = 4 -> IterCycleFirst(ts)
      [] k = 5 -> IterSpreadOnly(ts)
      [] k = 6 -> IterCycleSecond(ts)
      [] k = 7 -> IterRepeatSecond(ts)
      [] k = 8 -> IterChainLast(ts)
      [] k = 9 -> IterChainMore(ts)
      [] k = 10 -> IterShift(ts)
      [] k = 11 -> IterSpreadFirst(ts)
      [] k = 12 -> IterElemFirst(ts)

\* The rules are tried in order and the first that does not answer "no"
\* decides: [idx, r]; idx = 0 when every rule answers "no" (no rules
\* expected this token).
RECURSIVE IterFirstFrom(_, _)
IterFirstFrom(k, ts) ==
    IF k > 12 THEN [idx |-> 0, r |-> No]
    ELSE With(IterRuleAt(k, ts), LAMBDA r :
            IF r.m = "no" THEN IterFirstFrom(k + 1, ts)
            ELSE [idx |-> k, r |-> r])

IterFirstRule(ts) == IterFirstFrom(1, ts)

\* ------------------------------------------------------- chain! rules

\* () => empty()
ChainEmpty(ts) == IF ts = <<>> THEN Final(EmitEmpty) ELSE No

\* (...$some:tt $(,)?) => into_iter($some)
ChainSpreadOnly(ts) ==
    IF /\ Kind(ts, 1) = "..."
       /\ \/ Len(ts) = 2
          \/ Len(ts) = 3 /\ Kind(ts, 3) = ","
    THEN Final(EmitIntoIter(<<ts[2]>>))
    ELSE No

\* (...$some:tt, ...$spread:expr $(, $($tail:tt)*)?)
\*     => { let c1 = into_iter($some); let c2 = chain(c1, $spread);
\*          chain![...c2, $($($tail)*)?] }
\* The block's value is that of its last expression, in which c1 and c2
\* stand for their initialisers.
ChainTwoSpreads(ts) ==
    IF SpreadThenSpread(ts)
    THEN With(FragExpr(Drop(ts, 4)), LAMBDA spread :
            IF spread.m # "yes" THEN Failed(spread)
            ELSE IF Kind(spread.rest, 1) \in {",", "eof"}
            THEN Recurse(<<TDots,
                           TLet("c2", EmitChain(
                               <<TLet("c1", EmitIntoIter(<<ts[2]>>))>>,
                               <<spread.frag>>)),
                           TComma>> \o Drop(spread.rest, 1))
            ELSE No)
    ELSE No

\* (...[$($some:tt)*], $elem:tt $(, $($tail:tt)*)?)
\*     => chain![...[$($some)*, $elem], $($($tail)*)?]
ChainShift(ts) ==
    IF /\ Kind(ts, 1) = "..."
       /\ IsBracket(ts, 2)
       /\ Kind(ts, 3) = ","
       /\ Len(ts) >= 4
       /\ Kind(ts, 5) \in {",", "eof"}
    THEN Recurse(<<TDots, TGrp("[", ts[2][3] \o <<TComma, ts[4]>>), TComma>>
                 \o Drop(ts, 5))
    ELSE No

\* (...$spread:expr $(, $($tail:tt)*)?)
\*     => chain(into_iter($spread), chain![$tail])
ChainSpreadFirst(ts) ==
    IF Kind(ts, 1) = "..."
    THEN With(FragExpr(Tail(ts)), LAMBDA spread :
            IF spread.m # "yes" THEN Failed(spread)
            ELSE IF Kind(spread.rest, 1) \in {",", "eof"}
            THEN Frame(<<spread.frag>>, Drop(spread.rest, 1))
            ELSE No)
    ELSE No

\* ($elem:expr $(, $($tail:tt)*)?) => chain![...[$elem], $($($tail)*)?]
ChainElemFirst(ts) ==
    With(FragExpr(ts), LAMBDA elem :
        IF elem.m # "yes" THEN Failed(elem)
        ELSE IF Kind(elem.rest, 1) \in {",", "eof"}
        THEN Recurse(<<TDots, TGrp("[", <<elem.frag>>), TComma>>
                     \o Drop(elem.rest, 1))
        ELSE No)

\* the rules of chain! in the order the source lists them
ChainRuleAt(k, ts) ==
    CASE k = 1 -> ChainEmpty(ts)
      [] k = 2 -> ChainSpreadOnly(ts)
      [] k = 3 -> ChainTwoSpreads(ts)
      [] k = 4 -> ChainShift(ts)
      [] k = 5 -> ChainSpreadFirst(ts)
      [] k = 6 -> ChainElemFirst(ts)

RECURSIVE ChainFirstFrom(_, _)
ChainFirstFrom(k, ts) ==
    IF k > 6 THEN [idx |-> 0, r |-> No]
    ELSE With(ChainRuleAt(k, ts), LAMBDA r :
            IF r.m = "no" THEN ChainFirstFrom(k + 1, ts)
            ELSE [idx |-> k, r |-> r])

ChainFirstRule(ts) == ChainFirstFrom(1, ts)

\* ------------------------------------------------------- vek! rules

\* vek! with a second rule ($head:tt $($tail:tt)*) that forwards only $tail
VekRulesDropHead(ts) ==
    IF ts = <<>> THEN Final(EmitVecNew)
    ELSE [m |-> "yes", kind |-> "collect", toks |-> Tail(ts), left |-> <<>>]

\* () => Vec::new();  ($($tail:tt)*) => collect::<Vec<_>>(iter![$($tail)*])
VekRules(ts) ==
    IF ts = <<>> THEN Final(EmitVecNew)
    ELSE [m |-> "yes", kind |-> "collect", toks |-> ts, left |-> <<>>]

\* ------------------------------------------------------- expansion

\* The expansion with its pending macro call replaced by `inner`; ctx is
\* the enclosing calls, outermost first.
RECURSIVE Plug(_, _)
Plug(cx, inner) ==
    IF cx = <<>> THEN inner
    ELSE LET f == cx[Len(cx)]
         IN Plug(SubSeq(cx, 1, Len(cx) - 1),
                 IF f[1] = "chain" THEN EmitChain(EmitIntoIter(f[2]), inner)
                 ELSE EmitCollectVec(inner))

\* rustc on the finished expansion: <<"seq", elements>> or <<"err">>
Compiled(ts) == Eval(ParseAll(ts))

\* iter![ts] expanded to the end and compiled
RECURSIVE IterValue(_, _)
IterValue(ts, cx) ==
    With(IterFirstRule(ts), LAMBDA s :
        IF s.r.m # "yes" THEN <<"err">>
        ELSE CASE s.r.kind = "final" -> Compiled(Plug(cx, s.r.toks))
               [] s.r.kind = "recurse" -> IterValue(s.r.toks, cx)
               [] s.r.kind = "frame" ->
                     IterValue(s.r.toks, Append(cx, <<"chain", s.r.left>>)))

\* ------------------------------------------------------------ CycleN spec

Values == 1..2

RECURSIVE SeqsUpTo(_)
SeqsUpTo(k) ==
    IF k = 0 THEN {<<>>}
    ELSE LET shorter == SeqsUpTo(k - 1)
         IN shorter \cup {Append(s, v) : s \in {t \in shorter : Len(t) = k - 1},
                                         v \in Values}

NoRule == [idx |-> 0, r |-> No]

NoArgs == [form |-> "list", items |-> <<>>, trail |-> FALSE, n |-> 0]

\* no macro is being expanded
MacroIdle ==
    /\ mac = "none"
    /\ mpc = "idle"
    /\ args = NoArgs
    /\ toks = <<>>
    /\ sel = NoRule
    /\ ctx = <<>>
    /\ result = <<>>
    /\ value = <<>>

\* no CycleN is being driven
CycleIdle ==
    /\ cpc = "idle"
    /\ src = [items |-> <<>>, fused |-> TRUE]
    /\ cn = 0
    /\ cyc = [orig |-> None, iter |-> None, n |-> 0]
    /\ out = <<>>
    /\ ret = None
    /\ extra = 0
    /\ intoIterCalls = 0
    /\ cloneCalls = 0
    /\ ucalls = 0
    /\ passes = 0

InitCycle ==
    /\ MacroIdle
    /\ cpc = "new"
    /\ src \in [items : SeqsUpTo(MaxLen), fused : BOOLEAN]
    /\ cn \in 0..MaxN
    /\ cyc = [orig |-> None, iter |-> None, n |-> 0]
    /\ out = <<>>
    /\ ret = None
    /\ extra = 0
    /\ intoIterCalls = 0
    /\ cloneCalls = 0
    /\ ucalls = 0
    /\ passes = 0

CallCycleN ==
    /\ cpc = "new"
    /\ LET r == cycle_n(src, cn)
       IN /\ cyc' = r.c
          /\ intoIterCalls' = r.intoIter
          /\ cloneCalls' = r.clones
    /\ cpc' = "live"
    /\ UNCHANGED <<src, cn, out, ret, extra, ucalls, passes>>
    /\ UNCHANGED mvars

CallNext ==
    /\ cpc \in {"live", "ended"}
    /\ cpc = "ended" => extra < MaxExtra
    /\ LET r == CycleNext(cyc, [clones |-> 0, ucalls |-> 0, passes |-> 0])
       IN /\ cyc' = r.c
          /\ ret' = r.ret
          /\ out' = out \o r.ret
          /\ cloneCalls' = cloneCalls + r.clones
          /\ ucalls' = ucalls + r.ucalls
          /\ passes' = passes + r.passes
          /\ cpc' = IF r.ret = None THEN "ended" ELSE "live"
    /\ extra' = IF cpc = "ended" THEN extra + 1 ELSE extra
    /\ UNCHANGED <<src, cn, intoIterCalls>>
    /\ UNCHANGED mvars

NextCycle == CallCycleN \/ CallNext

SpecCycle == InitCycle /\ [][NextCycle]_vars


\* ------------------------------------------------- macro invocations
\* An invocation is written from items; the item at position i is
\*   "elem"  i                      a one-token element
\*   "neg"   -i                     an element of several tokens
\*   "arr0"  ...[]                  an empty array literal, spread
\*   "arr2"  ...[10i+1, 10i+2]      an array literal, spread
\*   "var"   ...xs                  a one-token iterable, spread
\*   "call"  ...xs.clone()          an iterable of several tokens, spread
\*   "rep"   ...[20+i; RepCount]    a nested repeat
\*   "cyc"   ...[...xs; RepCount]   a nested cycle
\* in one of the forms "list" (items, with or without a trailing comma),
\* "repeat" (x; n) and "cycle" (...xs; n).

PlainKinds == {"elem", "neg"}
SpreadKinds == {"arr0", "arr2", "var", "call"}
RepeatKinds == {"rep", "cyc"}

RenderItem(k, i) ==
    CASE k = "elem" -> <<TLit(i)>>
      [] k = "neg" -> <<TMinus, TLit(i)>>
      [] k = "arr0" -> <<TDots, TGrp("[", <<>>)>>
      [] k = "arr2" ->
            <<TDots, TGrp("[", <<TLit(10 * i + 1), TComma, TLit(10 * i + 2)>>)>>
      [] k = "var" -> <<TDots, TId("xs")>>
      [] k = "call" -> <<TDots, TId("xs"), TDot, TId("clone"), TGrp("(", <<>>)>>
      [] k = "rep" -> <<TDots, TGrp("[", <<TLit(20 + i), TSemi, TLit(RepCount)>>)>>
      [] k = "cyc" ->
            <<TDots, TGrp("[", <<TDots, TId("xs"), TSemi, TLit(RepCount)>>)>>

RECURSIVE RenderList(_, _)
RenderList(items, i) ==
    IF i > Len(items) THEN <<>>
    ELSE RenderItem(items[i], i)
         \o (IF i < Len(items) THEN <<TComma>> ELSE <<>>)
         \o RenderList(items, i + 1)

Render(a) ==
    CASE a.form = "list" ->
            RenderList(a.items, 1) \o (IF a.trail THEN <<TComma>> ELSE <<>>)
      [] a.form = "repeat" -> RenderItem(a.items[1], 1) \o <<TSemi, TLit(a.n)>>
      [] a.form = "cycle" -> <<TDots, TId("xs"), TSemi, TLit(a.n)>>

RECURSIVE ListsUpTo(_, _)
ListsUpTo(kinds, k) ==
    IF k = 0 THEN {<<>>}
    ELSE LET shorter == ListsUpTo(kinds, k - 1)
         IN shorter \cup {Append(l, x) : l \in {s \in shorter : Len(s) = k - 1},
                                         x \in kinds}

ListArgs(kinds) ==
    {[form |-> "list", items |-> l, trail |-> t, n |-> 0] :
        l \in ListsUpTo(kinds, MaxItems), t \in BOOLEAN} \ {[NoArgs EXCEPT !.trail = TRUE]}

CountArgs ==
    {[form |-> "repeat", items |-> <<k>>, trail |-> FALSE, n |-> c] :
        k \in PlainKinds, c \in 0..MaxCount}
    \cup {[form |-> "cycle", items |-> <<"var">>, trail |-> FALSE, n |-> c] :
        c \in 0..MaxCount}

\* ------------------------------------------------- iter! and vek! spec

InitIter ==
    /\ CycleIdle
    /\ mac \in {"iter", "vek"}
    /\ mpc = (IF mac = "vek" THEN "call" ELSE "expand")
    /\ args \in ListArgs(PlainKinds \cup SpreadKinds \cup RepeatKinds) \cup CountArgs
    /\ toks = Render(args)
    /\ sel = (IF mac = "vek" THEN NoRule ELSE IterFirstRule(toks))
    /\ ctx = <<>>
    /\ result = <<>>
    /\ value = <<>>

\* the macro matcher on a call of macro m with the arguments ts
Select(m, ts) == IF m = "chain" THEN ChainFirstRule(ts) ELSE IterFirstRule(ts)

\* what a matching rule transcribes
Transcribe(r) ==
    CASE r.kind = "final" ->
            /\ result' = Plug(ctx, r.toks)
            /\ mpc' = "expanded"
            /\ sel' = NoRule
            /\ UNCHANGED <<toks, ctx>>
      [] r.kind = "recurse" ->
            /\ toks' = r.toks
            /\ sel' = Select(mac, r.toks)
            /\ mpc' = "expand"
            /\ UNCHANGED <<ctx, result>>
      [] r.kind = "frame" ->
            /\ toks' = r.toks
            /\ sel' = Select(mac, r.toks)
            /\ ctx' = Append(ctx, <<"chain", r.left>>)
            /\ mpc' = "expand"
            /\ UNCHANGED result
      [] r.kind = "collect" ->
            /\ toks' = r.toks
            /\ sel' = IterFirstRule(r.toks)
            /\ ctx' = Append(ctx, <<"collect", <<>>>>)
            /\ mpc' = "expand"
            /\ UNCHANGED result

\* iter! is next to be expanded
IterPending == mac \in {"iter", "vek"} /\ mpc = "expand"

\* rule 1 of iter! takes the pending call
ExpandIterEmpty ==
    /\ IterPending
    /\ sel.idx = 1
    /\ sel.r.m = "yes"
    /\ Transcribe(sel.r)
    /\ UNCHANGED <<mac, args, value>>
    /\ UNCHANGED cvars

\* rule 2 of iter! takes the pending call
ExpandIterRepeat ==
    /\ IterPending
    /\ sel.idx = 2
    /\ sel.r.m = "yes"
    /\ Transcribe(sel.r)
    /\ UNCHANGED <<mac, args, value>>
    /\ UNCHANGED cvars

\* rule 3 of iter! takes the pending call
ExpandIterCycle ==
    /\ IterPending
    /\ sel.idx = 3
    /\ sel.r.m = "yes"
    /\ Transcribe(sel.r)
    /\ UNCHANGED <<mac, args, value>>
    /\ UNCHANGED cvars

\* rule 4 of iter! takes the pending call
ExpandIterCycleFirst ==
    /\ IterPending
    /\ sel.idx = 4
    /\ sel.r.m = "yes"
    /\ Transcribe(sel.r)
    /\ UNCHANGED <<mac, args, value>>
    /\ UNCHANGED cvars

\* rule 5 of iter! takes the pending call
ExpandIterSpreadOnly ==
    /\ IterPending
    /\ sel.idx = 5
    /\ sel.r.m = "yes"
    /\ Transcribe(sel.r)
    /\ UNCHANGED <<mac, args, value>>
    /\ UNCHANGED cvars

\* rule 6 of iter! takes the pending call
ExpandIterCycleSecond ==
    /\ IterPending
    /\ sel.idx = 6
    /\ sel.r.m = "yes"
    /\ Transcribe(sel.r)
    /\ UNCHANGED <<mac, args, value>>
    /\ UNCHANGED cvars

\* rule 7 of iter! takes the pending call
ExpandIterRepeatSecond ==
    /\ IterPending
    /\ sel.idx = 7
    /\ sel.r.m = "yes"
    /\ Transcribe(sel.r)
    /\ UNCHANGED <<mac, args, value>>
    /\ UNCHANGED cvars

\* rule 8 of iter! takes the pending call
ExpandIterChainLast ==
    /\ IterPending
    /\ sel.idx = 8
    /\ sel.r.m = "yes"
    /\ Transcribe(sel.r)
    /\ UNCHANGED <<mac, args, value>>
    /\ UNCHANGED cvars

\* rule 9 of iter! takes the pending call
ExpandIterChainMore ==
    /\ IterPending
    /\ sel.idx = 9
    /\ sel.r.m = "yes"
    /\ Transcribe(sel.r)
    /\ UNCHANGED <<mac, args, value>>
    /\ UNCHANGED cvars

\* rule 10 of iter! takes the pending call
ExpandIterShift ==
    /\ IterPending
    /\ sel.idx = 10
    /\ sel.r.m = "yes"
    /\ Transcribe(sel.r)
    /\ UNCHANGED <<mac, args, value>>
    /\ UNCHANGED cvars

\* rule 11 of iter! takes the pending call
ExpandIterSpreadFirst ==
    /\ IterPending
    /\ sel.idx = 11
    /\ sel.r.m = "yes"
    /\ Transcribe(sel.r)
    /\ UNCHANGED <<mac, args, value>>
    /\ UNCHANGED cvars

\* rule 12 of iter! takes the pending call
ExpandIterElemFirst ==
    /\ IterPending
    /\ sel.idx = 12
    /\ sel.r.m = "yes"
    /\ Transcribe(sel.r)
    /\ UNCHANGED <<mac, args, value>>
    /\ UNCHANGED cvars

\* no rule of iter! takes the pending call: a compile error
RejectIter ==
    /\ IterPending
    /\ sel.r.m # "yes"
    /\ mpc' = "rejected"
    /\ UNCHANGED <<mac, args, toks, sel, ctx, result, value>>
    /\ UNCHANGED cvars

ExpandVek ==
    /\ mac = "vek"
    /\ mpc = "call"
    /\ \E r \in {VekRules(toks)} : Transcribe(r)
    /\ UNCHANGED <<mac, args, value>>
    /\ UNCHANGED cvars

\* rustc parses and evaluates the finished expansion
Compile ==
    /\ mpc = "expanded"
    /\ \E v \in {Compiled(result)} :
          /\ mpc' = (IF v[1] = "seq" THEN "ok" ELSE "invalid")
          /\ value' = (IF v[1] = "seq" THEN v[2] ELSE <<>>)
    /\ UNCHANGED <<mac, args, toks, sel, ctx, result>>
    /\ UNCHANGED cvars

NextIter ==
    \/ ExpandIterEmpty
    \/ ExpandIterRepeat
    \/ ExpandIterCycle
    \/ ExpandIterCycleFirst
    \/ ExpandIterSpreadOnly
    \/ ExpandIterCycleSecond
    \/ ExpandIterRepeatSecond
    \/ ExpandIterChainLast
    \/ ExpandIterChainMore
    \/ ExpandIterShift
    \/ ExpandIterSpreadFirst
    \/ ExpandIterElemFirst
    \/ RejectIter
    \/ ExpandVek
    \/ Compile

SpecIter == InitIter /\ [][NextIter]_vars

\* ------------------------------------------------------- chain! spec

InitChain ==
    /\ CycleIdle
    /\ mac = "chain"
    /\ mpc = "expand"
    /\ args \in ListArgs(PlainKinds \cup SpreadKinds) \cup CountArgs
    /\ toks = Render(args)
    /\ sel = ChainFirstRule(toks)
    /\ ctx = <<>>
    /\ result = <<>>
    /\ value = <<>>

\* chain! is next to be expanded
ChainPending == mac = "chain" /\ mpc = "expand"

\* rule 1 of chain! takes the pending call
ExpandChainEmpty ==
    /\ ChainPending
    /\ sel.idx = 1
    /\ sel.r.m = "yes"
    /\ Transcribe(sel.r)
    /\ UNCHANGED <<mac, args, value>>
    /\ UNCHANGED cvars

\* rule 2 of chain! takes the pending call
ExpandChainSpreadOnly ==
    /\ ChainPending
    /\ sel.idx = 2
    /\ sel.r.m = "yes"
    /\ Transcribe(sel.r)
    /\ UNCHANGED <<mac, args, value>>
    /\ UNCHANGED cvars

\* rule 3 of chain! takes the pending call
ExpandChainTwoSpreads ==
    /\ ChainPending
    /\ sel.idx = 3
    /\ sel.r.m = "yes"
    /\ Transcribe(sel.r)
    /\ UNCHANGED <<mac, args, value>>
    /\ UNCHANGED cvars

\* rule 4 of chain! takes the pending call
ExpandChainShift ==
    /\ ChainPending
    /\ sel.idx = 4
    /\ sel.r.m = "yes"
    /\ Transcribe(sel.r)
    /\ UNCHANGED <<mac, args, value>>
    /\ UNCHANGED cvars

\* rule 5 of chain! takes the pending call
ExpandChainSpreadFirst ==
    /\ ChainPending
    /\ sel.idx = 5
    /\ sel.r.m = "yes"
    /\ Transcribe(sel.r)
    /\ UNCHANGED <<mac, args, value>>
    /\ UNCHANGED cvars

\* rule 6 of chain! takes the pending call
ExpandChainElemFirst ==
    /\ ChainPending
    /\ sel.idx = 6
    /\ sel.r.m = "yes"
    /\ Transcribe(sel.r)
    /\ UNCHANGED <<mac, args, value>>
    /\ UNCHANGED cvars

\* no rule of chain! takes the pending call: a compile error
RejectChain ==
    /\ ChainPending
    /\ sel.r.m # "yes"
    /\ mpc' = "rejected"
    /\ UNCHANGED <<mac, args, toks, sel, ctx, result, value>>
    /\ UNCHANGED cvars

NextChain ==
    \/ ExpandChainEmpty
    \/ ExpandChainSpreadOnly
    \/ ExpandChainTwoSpreads
    \/ ExpandChainShift
    \/ ExpandChainSpreadFirst
    \/ ExpandChainElemFirst
    \/ RejectChain
    \/ Compile

SpecChain == InitChain /\ [][NextChain]_vars

\* s repeated n times
RECURSIVE Repeated(_, _)
Repeated(s, n) == IF n = 0 THEN <<>> ELSE s \o Repeated(s, n - 1)

IsPrefix(p, s) == Len(p) <= Len(s) /\ SubSeq(s, 1, Len(p)) = p


\* ------------------------------------------------- what the macros mean

\* the elements the item of kind k at position i stands for
ItemMeaning(k, i) ==
    CASE k = "elem" -> <<i>>
      [] k = "neg" -> <<0 - i>>
      [] k = "arr0" -> <<>>
      [] k = "arr2" -> <<10 * i + 1, 10 * i + 2>>
      [] k \in {"var", "call"} -> XS
      [] k = "rep" -> Copies(20 + i, RepCount)
      [] k = "cyc" -> Repeated(XS, RepCount)

RECURSIVE ListMeaning(_, _)
ListMeaning(items, i) ==
    IF i > Len(items) THEN <<>>
    ELSE ItemMeaning(items[i], i) \o ListMeaning(items, i + 1)

\* the sequence an invocation denotes: every element once, every spread's
\* elements in its place, left to right; x; n is n copies of x and
\* ...xs; n is xs repeated n times
Meaning(a) ==
    CASE a.form = "list" -> ListMeaning(a.items, 1)
      [] a.form = "repeat" -> Copies(ItemMeaning(a.items[1], 1)[1], a.n)
      [] a.form = "cycle" -> Repeated(XS, a.n)

Finished == mpc \in {"ok", "rejected", "invalid"}

HasKind(a, kinds) == \E i \in 1..Len(a.items) : a.items[i] \in kinds
OnlyKinds(a, kinds) == \A i \in 1..Len(a.items) : a.items[i] \in kinds

\* ---------------------------------------------------------- macro claims

\* the AST of the element written at position i
ElemAst(k, i) == IF k = "neg" THEN <<"Neg", <<"Lit", i>>>> ELSE <<"Lit", i>>

\* what std's vec! builds from the same arguments
VecMacro(a) ==
    IF a.form = "repeat" THEN Copies(ItemMeaning(a.items[1], 1)[1], a.n)
    ELSE ListMeaning(a.items, 1)

\* C2: for every list of plain elements and spreads (array literals, the
\* empty one included, and other iterable expressions), in any order and
\* with a spread at any position, iter![list] compiles and yields each
\* element once and each spread's elements in its place, left to right.
C2_IterSplices ==
    (/\ mac = "iter"
     /\ args.form = "list"
     /\ OnlyKinds(args, PlainKinds \cup SpreadKinds)
     /\ Finished)
    => (mpc = "ok" /\ value = Meaning(args))

\* C3: for every invocation shape vec! accepts (the empty list, a list of
\* element expressions with or without a trailing comma, and x; n), vek! is
\* accepted and builds the vector vec! builds.
C3_VekIsDropInForVec ==
    (/\ mac = "vek"
     /\ \/ args.form = "list" /\ OnlyKinds(args, PlainKinds)
        \/ args.form = "repeat"
     /\ Finished)
    => (mpc = "ok" /\ value = VecMacro(args))

\* C4: for every argument list, vek![args] ends as iter![args] collected
\* does: the same elements in the same order, or a compile error in both.
C4_VekIsCollectedIter ==
    (mac = "vek" /\ Finished)
    => (IF mpc = "ok" THEN <<"seq", value>> ELSE <<"err">>)
       = IterValue(Render(args), <<>>)

C4_Witness ==
    /\ mac = "vek"
    /\ mpc = "ok"
    /\ args.items = <<"elem", "arr2", "cyc">>
    /\ value = <<1, 21, 22, 7, 8, 7, 8>>

\* C5: iter![x; n] yields n copies of x, iter![...xs; n] yields xs repeated
\* n times, and a nested ...[x; n] or ...[...xs; n] contributes that same
\* sequence in its place at any position of a list mixed with plain
\* elements and other spreads (x a one-token element here).
C5_RepeatFormsCombine ==
    (/\ mac = "iter"
     /\ \/ args.form = "repeat" /\ args.items = <<"elem">>
        \/ args.form = "cycle"
        \/ args.form = "list" /\ HasKind(args, RepeatKinds)
     /\ Finished)
    => (mpc = "ok" /\ value = Meaning(args))

\* C6: for every non-empty list of k plain elements, whatever expressions
\* they are, iter! expands to into_iter() of one array literal of those k
\* elements in order, with no chain call; the empty invocation expands to
\* std::iter::empty().
C6_PlainListIsOneArray ==
    (/\ mac = "iter"
     /\ args.form = "list"
     /\ OnlyKinds(args, PlainKinds)
     /\ Finished)
    => /\ mpc = "ok"
       /\ ParseAll(result) =
            IF args.items = <<>>
            THEN <<"Call", <<"Path", PathEmpty>>, <<>>>>
            ELSE <<"Call", <<"Path", PathIntoIter>>,
                   <<<<"Array", [i \in 1..Len(args.items) |->
                                    ElemAst(args.items[i], i)]>>>>>>

\* C7: for every list of plain elements and spreads (the empty list and the
\* empty spread ...[] included), chain![list] compiles and yields each
\* element once and each spread's elements in its place, left to right.
C7_ChainSplices ==
    (/\ mac = "chain"
     /\ args.form = "list"
     /\ Finished)
    => (mpc = "ok" /\ value = Meaning(args))

\* ---------------------------------------------------------- CycleN claims

\* C1: the elements next() yields from cycle_n(s, n) are always a prefix of
\* s repeated n times, every Some(x) extends that prefix by x, and when
\* next() returns None exactly n * |s| elements, s repeated n times, have
\* been yielded (nothing for n = 0 or for an empty s).
C1_CycleNYieldsRepeated ==
    cpc \in {"live", "ended"} =>
        /\ IsPrefix(out, Repeated(src.items, cn))
        /\ (ret # None => out # <<>> /\ out[Len(out)] = ret[1])
        /\ (cpc = "live" /\ out = Repeated(src.items, cn) =>
                CycleNext(cyc, [clones |-> 0, ucalls |-> 0,
                                passes |-> 0]).ret = None)
        /\ (cpc = "ended" =>
                /\ out = Repeated(src.items, cn)
                /\ Len(out) = cn * Len(src.items))

C1_Witness ==
    /\ cpc = "ended"
    /\ cn = 2
    /\ src.items = <<1, 2>>
    /\ out = <<1, 2, 1, 2>>

\* C8: after a full traversal of cycle_n(s, n), into_iter() was called once
\* if n >= 1 and never if n = 0, the iterator was cloned n - 1 times if
\* n >= 1 (never if n <= 1), and every iterator made (the original and each
\* clone) was run as one of the n passes; before that, no more calls than
\* these have been made.
C8_NoNeedlessIntoIterOrClone ==
    cpc \in {"live", "ended"} =>
        /\ intoIterCalls = (IF cn >= 1 THEN 1 ELSE 0)
        /\ cloneCalls <= (IF cn >= 1 THEN cn - 1 ELSE 0)
        /\ passes <= intoIterCalls + cloneCalls
        /\ (cpc = "ended" =>
                /\ cloneCalls = (IF cn >= 1 THEN cn - 1 ELSE 0)
                /\ passes = intoIterCalls + cloneCalls
                /\ passes = cn)

C8_Witness ==
    /\ cpc = "ended"
    /\ cn = 3
    /\ cloneCalls = 2
    /\ intoIterCalls = 1
    /\ Len(out) = 6

\* C9: once next() has returned None, iter and orig are both None, and
\* every later next() returns None, leaves the struct and the yielded
\* elements as they were and does not call the underlying iterator, whether
\* or not that iterator is fused.
C9_Fused ==
    /\ [](cpc = "ended" => cyc.iter = None /\ cyc.orig = None)
    /\ [][cpc = "ended" =>
            /\ ret' = None
            /\ cyc' = cyc
            /\ out' = out
            /\ ucalls' = ucalls]_vars

C9_Witness ==
    /\ cpc = "ended"
    /\ extra >= 1
    /\ ~src.fused
    /\ cn >= 2
    /\ Len(src.items) >= 1
    /\ ret = None

====
